---- MODULE Spec2Model ----
(***************************************************************************)
(* A model of runner/models.py: the record schemas of the runner database  *)
(* (Mouse, Box, Board, ArduinoProtocol, PythonProtocol, Session) and their *)
(* derived accessors.                                                      *)
(*                                                                         *)
(* Python values are encoded so that TLC can compare them:                 *)
(*   - a nullable scalar is a sequence of length at most one: None is <<>> *)
(*     and the value v is <<v>>;                                           *)
(*   - a FloatField value is tagged with its Python type; a float is an    *)
(*     integer count of millionths, so 2.5 is 2500000, 0.03 is 30000 and   *)
(*     0.873 is 873000;                                                    *)
(*   - a raised exception is the name of its class, "" meaning none.       *)
(***************************************************************************)
EXTENDS Integers, Sequences, FiniteSets, TLC

VARIABLES
    box,        \* the fields of one Box instance
    pre,        \* the fields of that Box before the last property write
    boxOp,      \* the last property write: property, argument, exception
    inst,       \* one model instance whose display methods are called
    shown,      \* the last display method called on inst, and what it returned
    mouseTable, \* the stored Mouse rows; a row's id is its position
    sessionTable,   \* the stored Session rows, a set; name is the primary key
    sessions,   \* the Session instances in memory, by session number
    storeOp     \* the last operation on the store, and its outcome

boxVars == <<box, pre, boxOp>>
displayVars == <<inst, shown>>
storeVars == <<mouseTable, sessionTable, sessions, storeOp>>
vars == <<box, pre, boxOp, inst, shown, mouseTable, sessionTable, sessions, storeOp>>

(***************************************************************************)
(* Bounds of the model.                                                    *)
(***************************************************************************)
\* Coordinates written through the paired properties are None or 0..MaxCoord.
MaxCoord == 0
\* Sequences handed to a paired property have 0..MaxArgLen elements.
MaxArgLen == 3
\* The float fields of a displayed Session hold, besides None and the values
\* of the documented examples, the multiples 0..MaxMultiple of a small step.
MaxMultiple == 1
\* At most MaxMice Mouse rows and MaxSessions Session rows are stored where
\* rows are created directly, and at most MaxInstances sessions are started.
MaxMice == 1
MaxSessions == 2
MaxInstances == 2

(***************************************************************************)
(* Python values.                                                          *)
(***************************************************************************)
None == <<>>
Some(v) == <<v>>

\* What an IntegerField(null=True) coordinate may hold.
Coord == {None} \cup {Some(n) : n \in 0..MaxCoord}

\* The objects handed to a property setter: tuples/lists of coordinates, and
\* one object that does not support indexing (None, an int).
SeqArgs == UNION {[1..n -> Coord] : n \in 0..MaxArgLen}
Args == [indexable : {TRUE}, elems : SeqArgs] \cup {[indexable |-> FALSE, elems |-> <<>>]}

\* Python's obj[i] (i counted from 0): the element, or the exception raised.
GetItem(obj, i) ==
    IF ~obj.indexable THEN [exc |-> "TypeError", val |-> None]
    ELSE IF i + 1 > Len(obj.elems) THEN [exc |-> "IndexError", val |-> None]
    ELSE [exc |-> "", val |-> obj.elems[i + 1]]

(***************************************************************************)
(* Box.                                                                    *)
(***************************************************************************)
BoxFields ==
    {"name", "l_reward_duration", "r_reward_duration", "serial_port", "video_device",
     "video_window_position_x", "video_window_position_y",
     "gui_window_position_x", "gui_window_position_y",
     "window_position_IR_plot_x", "window_position_IR_plot_y",
     "subprocess_window_ypos", "video_brightness", "video_gain", "video_exposure"}

\* A Box constructed with its required fields; every nullable field is None.
NewBox ==
    [f \in BoxFields |->
        CASE f = "name" -> Some("box1")
          [] f = "l_reward_duration" -> Some(0)
          [] f = "serial_port" -> Some("tty0")
          [] OTHER -> None]

\* The three paired properties, each with its two backing fields.
PairProps == {"video_window_position", "gui_window_position", "window_position_IR_plot"}
PairX(p) ==
    CASE p = "video_window_position" -> "video_window_position_x"
      [] p = "gui_window_position" -> "gui_window_position_x"
      [] p = "window_position_IR_plot" -> "window_position_IR_plot_x"

PairY(p) ==
    CASE p = "video_window_position" -> "video_window_position_y"
      [] p = "gui_window_position" -> "gui_window_position_y"
      [] p = "window_position_IR_plot" -> "window_position_IR_plot_y"

\* Getters: a 2-tuple of the two backing fields.
video_window_position(b) ==
    <<b["video_window_position_x"], b["video_window_position_y"]>>

gui_window_position(b) ==
    <<b["gui_window_position_x"], b["gui_window_position_y"]>>

window_position_IR_plot(b) ==
    <<b["window_position_IR_plot_x"], b["window_position_IR_plot_y"]>>

GetPair(p, b) ==
    CASE p = "video_window_position" -> video_window_position(b)
      [] p = "gui_window_position" -> gui_window_position(b)
      [] p = "window_position_IR_plot" -> window_position_IR_plot(b)

\* Setters: two assignments in sequence, self.<p>_x = obj[0] and then
\* self.<p>_y = obj[1]. An exception raised by the second subscript leaves the
\* first assignment done. The result is the Box afterwards and the exception.
\* A setter that stores obj[0] in both fields.
SetTwoSameIndex(b, fx, fy, obj) ==
    LET r0 == GetItem(obj, 0)
        b1 == [b EXCEPT ![fx] = r0.val]
        r1 == GetItem(obj, 1)
    IN  IF r0.exc # "" THEN [box |-> b, exc |-> r0.exc]
        ELSE IF r1.exc # "" THEN [box |-> b1, exc |-> r1.exc]
        ELSE [box |-> [b1 EXCEPT ![fy] = r0.val], exc |-> ""]

\* A setter that stores None for an element the sequence does not have.
SetTwoLenient(b, fx, fy, obj) ==
    LET r0 == GetItem(obj, 0)
        r1 == GetItem(obj, 1)
    IN  IF r0.exc = "TypeError" THEN [box |-> b, exc |-> r0.exc]
        ELSE [box |-> [b EXCEPT ![fx] = r0.val, ![fy] = r1.val], exc |-> ""]

SetTwo(b, fx, fy, obj) ==
    LET r0 == GetItem(obj, 0)
        b1 == [b EXCEPT ![fx] = r0.val]
        r1 == GetItem(obj, 1)
    IN  IF r0.exc # "" THEN [box |-> b, exc |-> r0.exc]
        ELSE IF r1.exc # "" THEN [box |-> b1, exc |-> r1.exc]
        ELSE [box |-> [b1 EXCEPT ![fy] = r1.val], exc |-> ""]

video_window_position_set(b, obj) ==
    SetTwo(b, "video_window_position_x", "video_window_position_y", obj)

gui_window_position_set(b, obj) ==
    SetTwo(b, "gui_window_position_x", "gui_window_position_y", obj)

window_position_IR_plot_set(b, obj) ==
    SetTwo(b, "window_position_IR_plot_x", "window_position_IR_plot_y", obj)

SetPair(p, b, obj) ==
    CASE p = "video_window_position" -> video_window_position_set(b, obj)
      [] p = "gui_window_position" -> gui_window_position_set(b, obj)
      [] p = "window_position_IR_plot" -> window_position_IR_plot_set(b, obj)

NoBoxOp == [prop |-> "", obj |-> [indexable |-> FALSE, elems |-> <<>>], exc |-> ""]

NothingShown == [method |-> "", exc |-> "", val |-> ""]
NoInstance == [kind |-> "", name |-> None]
NoStoreOp == [op |-> ""]
NoSessions == [i \in 1..MaxInstances |-> [alive |-> FALSE]]

\* A Box has been constructed; nothing else exists.
InitBox ==
    /\ box = NewBox
    /\ pre = NewBox
    /\ boxOp = NoBoxOp
    /\ inst = NoInstance
    /\ shown = NothingShown
    /\ mouseTable = <<>>
    /\ sessionTable = {}
    /\ sessions = NoSessions
    /\ storeOp = NoStoreOp

\* The statement box.<p> = obj, run to its end or to the exception it raises.
WritePair(p, obj) ==
    /\ boxOp = NoBoxOp
    /\ LET r == SetPair(p, box, obj)
       IN  /\ box' = r.box
           /\ pre' = box
           /\ boxOp' = [prop |-> p, obj |-> obj, exc |-> r.exc]
    /\ UNCHANGED <<displayVars, storeVars>>

\* The caller goes on to its next statement; the Box stays as the write left it.
BoxReturn ==
    /\ boxOp # NoBoxOp
    /\ boxOp' = NoBoxOp
    /\ pre' = box
    /\ UNCHANGED <<box, displayVars, storeVars>>

NextBox ==
    \/ \E p \in PairProps, obj \in Args : WritePair(p, obj)
    \/ BoxReturn

SpecBox == InitBox /\ [][NextBox]_vars

(***************************************************************************)
(* Python's float formatting, truth value and str().                       *)
(***************************************************************************)
PyNone == [t |-> "NoneType", n |-> 0]
PyFloat(n) == [t |-> "float", n |-> n]
\* A non-empty string that is no number.
PyStr == [t |-> "str", n |-> 0]

Digits == <<"0", "1", "2", "3", "4", "5", "6", "7", "8", "9">>

RECURSIVE Pow10(_)
Pow10(k) == IF k = 0 THEN 1 ELSE 10 * Pow10(k - 1)

\* The decimal numeral of a natural number.
RECURSIVE Dec(_)
Dec(n) == IF n < 10 THEN Digits[n + 1] ELSE Dec(n \div 10) \o Digits[(n % 10) + 1]

\* The d rightmost decimal digits of n, zeros kept.
RECURSIVE Pad(_, _)
Pad(n, d) == IF d = 0 THEN "" ELSE Pad(n \div 10, d - 1) \o Digits[(n % 10) + 1]

\* n millionths to the nearest multiple of 10^-d, a tie going to the even one.
RoundTo(n, d) ==
    LET unit == Pow10(6 - d)
        q == n \div unit
        r == n % unit
    IN  IF 2 * r > unit \/ (2 * r = unit /\ q % 2 = 1) THEN q + 1 ELSE q

\* '%0.<d>f' % v for a non-negative v: d decimals, or a TypeError when v is
\* no number.
FormatF(d, v) ==
    IF v.t # "float" THEN [exc |-> "TypeError", val |-> ""]
    ELSE LET m == RoundTo(v.n, d)
         IN  [exc |-> "",
              val |-> Dec(m \div Pow10(d)) \o
                      (IF d = 0 THEN "" ELSE "." \o Pad(m % Pow10(d), d))]

\* k * v for an int k: a float for a float, the string repeated for a string,
\* a TypeError for None.
Times(k, v) ==
    CASE v.t = "float" -> [exc |-> "", val |-> PyFloat(k * v.n)]
      [] v.t = "str" -> [exc |-> "", val |-> PyStr]
      [] OTHER -> [exc |-> "TypeError", val |-> PyNone]

\* The truth value of "if v:" for a float field: None and 0.0 are false.
Truth(v) ==
    CASE v.t = "NoneType" -> FALSE
      [] v.t = "float" -> v.n # 0
      [] OTHER -> TRUE

\* The truth value of "if name:" for a CharField: None and '' are false.
TruthOfName(name) == name # None /\ name[1] # ""

\* str(name)
Str(name) == IF name = None THEN "None" ELSE name[1]

(***************************************************************************)
(* The display methods: __str__ of every model, and the summaries of a     *)
(* Session. Each returns the string, or the exception it raises.           *)
(***************************************************************************)
Returns(val) == [exc |-> "", val |-> val]
Raises(exc) == [exc |-> exc, val |-> ""]

Mouse___str__(self) == Returns(Str(self.name))
Box___str__(self) == Returns(Str(self.name))
Board___str__(self) == Returns(Str(self.name))
ArduinoProtocol___str__(self) == Returns(Str(self.name))
PythonProtocol___str__(self) == Returns(Str(self.name))

\* A Session.__str__ without the fallback label.
Session___str__NoFallback(self) == Returns(Str(self.name))

Session___str__(self) ==
    IF TruthOfName(self.name) THEN Returns(Str(self.name)) ELSE Returns("Unstarted")

\* The two "if" statements of a valve summary, run one after the other on res.
ValveSummary(consumption, mean) ==
    LET c == FormatF(2, consumption)
        res1 == IF Truth(consumption) THEN c.val ELSE ""
        k == Times(1000, mean)
        m == FormatF(1, k.val)
    IN  IF Truth(consumption) /\ c.exc # "" THEN Raises(c.exc)
        ELSE IF ~Truth(mean) THEN Returns(res1)
        ELSE IF k.exc # "" THEN Raises(k.exc)
        ELSE IF m.exc # "" THEN Raises(m.exc)
        ELSE Returns(res1 \o " @" \o m.val \o " µL")

left_valve_summary(self) ==
    ValveSummary(self.user_data_left_water_consumption, self.user_data_left_valve_mean)

right_valve_summary(self) ==
    ValveSummary(self.user_data_right_water_consumption, self.user_data_right_valve_mean)

\* A performance display without the try/except.
DisplayPerfNoCatch(perf) ==
    LET k == Times(100, perf)
        f == FormatF(0, k.val)
    IN  IF k.exc # "" THEN Raises(k.exc)
        ELSE IF f.exc # "" THEN Raises(f.exc)
        ELSE Returns(f.val)

\* try: '%.0f' % (100 * perf)  except: 'NA'
DisplayPerf(perf) ==
    LET k == Times(100, perf)
        f == FormatF(0, k.val)
    IN  IF k.exc # "" THEN Returns("NA")
        ELSE IF f.exc # "" THEN Returns("NA")
        ELSE Returns(f.val)

display_left_perf(self) == DisplayPerf(self.user_data_left_perf)

display_right_perf(self) == DisplayPerf(self.user_data_right_perf)

\* The values the float fields of a displayed Session take.
Multiples(step) == {PyFloat(k * step) : k \in 0..MaxMultiple}
ConsumptionValues == {PyNone, PyFloat(2500000)} \cup Multiples(6000)
ValveMeanValues == {PyNone, PyFloat(30000)} \cup Multiples(60)
PerfValues == {PyNone, PyStr, PyFloat(873000)} \cup Multiples(5000)

\* A Session's name: unassigned (None), empty, or constructed.
SessionNames == {None, Some(""), Some("2020-01-01_mouseX")}
\* The name of any other model: a CharField that is never null.
OtherNames == {Some(""), Some("mouseX")}
OtherKinds == {"Mouse", "Box", "Board", "ArduinoProtocol", "PythonProtocol"}

DisplayedSessions ==
    [kind : {"Session"},
     name : SessionNames,
     user_data_left_water_consumption : ConsumptionValues,
     user_data_right_water_consumption : ConsumptionValues,
     user_data_left_valve_mean : ValveMeanValues,
     user_data_right_valve_mean : ValveMeanValues,
     user_data_left_perf : PerfValues,
     user_data_right_perf : PerfValues]

DisplayedOthers == [kind : OtherKinds, name : OtherNames]

SessionMethods ==
    {"__str__", "left_valve_summary", "right_valve_summary",
     "display_left_perf", "display_right_perf"}

MethodsOf(o) == IF o.kind = "Session" THEN SessionMethods ELSE {"__str__"}

\* o.<method>()
CallMethod(o, method) ==
    CASE o.kind = "Session" /\ method = "__str__" -> Session___str__(o)
      [] o.kind = "Session" /\ method = "left_valve_summary" -> left_valve_summary(o)
      [] o.kind = "Session" /\ method = "right_valve_summary" -> right_valve_summary(o)
      [] o.kind = "Session" /\ method = "display_left_perf" -> display_left_perf(o)
      [] o.kind = "Session" /\ method = "display_right_perf" -> display_right_perf(o)
      [] o.kind = "Mouse" -> Mouse___str__(o)
      [] o.kind = "Box" -> Box___str__(o)
      [] o.kind = "Board" -> Board___str__(o)
      [] o.kind = "ArduinoProtocol" -> ArduinoProtocol___str__(o)
      [] o.kind = "PythonProtocol" -> PythonProtocol___str__(o)

\* One instance of one model is in memory, with any field values.
InitDisplay ==
    /\ inst \in DisplayedSessions \cup DisplayedOthers
    /\ shown = NothingShown
    /\ box = NewBox
    /\ pre = NewBox
    /\ boxOp = NoBoxOp
    /\ mouseTable = <<>>
    /\ sessionTable = {}
    /\ sessions = NoSessions
    /\ storeOp = NoStoreOp

\* A display method of inst is called and returns or raises.
Display(method) ==
    /\ shown = NothingShown
    /\ method \in MethodsOf(inst)
    /\ LET r == CallMethod(inst, method)
       IN  shown' = [method |-> method, exc |-> r.exc, val |-> r.val]
    /\ UNCHANGED <<inst, boxVars, storeVars>>

\* The caller goes on; the instance is not changed by displaying it.
DisplayReturn ==
    /\ shown # NothingShown
    /\ shown' = NothingShown
    /\ UNCHANGED <<inst, boxVars, storeVars>>

NextDisplay ==
    \/ \E method \in SessionMethods : Display(method)
    \/ DisplayReturn

SpecDisplay == InitDisplay /\ [][NextDisplay]_vars

(***************************************************************************)
(* Mouse: the declared fields, and what Django does with the declarations  *)
(* when an instance is constructed, validated (full_clean, which a model   *)
(* form of the admin runs) and saved.                                      *)
(***************************************************************************)
MouseFields ==
    {"name", "stimulus_set", "step_first_rotation", "timeout", "scheduler",
     "max_rewards_per_trial", "protocol_name", "script_name",
     "default_board", "default_box"}

\* A declaration: null and blank are False and there is no default (None)
\* unless the declaration says otherwise.
CharField(null, blank) ==
    [type |-> "CharField", null |-> null, blank |-> blank, default |-> None]
IntegerField(null, blank, default) ==
    [type |-> "IntegerField", null |-> null, blank |-> blank, default |-> default]

\* stimulus_set declared blank=True.
stimulus_set_blank == CharField(FALSE, TRUE)

\* stimulus_set = models.CharField(max_length=50)
stimulus_set_field == CharField(FALSE, FALSE)

MouseDecl(f) ==
    CASE f = "name" -> CharField(FALSE, FALSE)
      [] f = "stimulus_set" -> stimulus_set_field
      [] f = "step_first_rotation" -> IntegerField(FALSE, FALSE, None)
      [] f = "timeout" -> IntegerField(TRUE, TRUE, None)
      [] f = "scheduler" -> CharField(FALSE, FALSE)
      [] f = "max_rewards_per_trial" -> IntegerField(FALSE, FALSE, Some(1))
      [] f = "protocol_name" -> CharField(FALSE, FALSE)
      [] f = "script_name" -> CharField(FALSE, FALSE)
      [] f = "default_board" -> CharField(TRUE, TRUE)
      [] f = "default_box" -> CharField(TRUE, TRUE)

\* The value of a field the constructor is not given: the declared default,
\* else '' for a CharField that is not nullable, else None.
Field_get_default(d) ==
    IF d.default # None THEN d.default
    ELSE IF d.type = "CharField" /\ ~d.null THEN Some("")
    ELSE None

\* Whether v is one of the field's empty values: None, and '' for a CharField.
IsEmpty(d, v) == v = None \/ (d.type = "CharField" /\ v = Some(""))

\* Mouse(**kwargs)
Mouse_init(kwargs) ==
    [f \in MouseFields |->
        IF f \in DOMAIN kwargs THEN kwargs[f] ELSE Field_get_default(MouseDecl(f))]

\* The fields full_clean() reports: an empty value is accepted where blank is
\* True, and is otherwise "cannot be null" or "cannot be blank".
Mouse_clean_fields(self) ==
    {f \in MouseFields : ~MouseDecl(f).blank /\ IsEmpty(MouseDecl(f), self[f])}

\* The INSERT of save(): a NULL in a column that is not nullable is refused.
Mouse_insert(table, self) ==
    IF \E f \in MouseFields : ~MouseDecl(f).null /\ self[f] = None
    THEN [exc |-> "IntegrityError", fields |-> {}, table |-> table]
    ELSE [exc |-> "", fields |-> {}, table |-> Append(table, self)]

\* m = Mouse(**kwargs); m.full_clean() when validating; m.save()
Mouse_create(table, kwargs, validate) ==
    LET self == Mouse_init(kwargs)
        errors == IF validate THEN Mouse_clean_fields(self) ELSE {}
    IN  IF errors # {}
        THEN [exc |-> "ValidationError", fields |-> errors, table |-> table]
        ELSE Mouse_insert(table, self)

\* The values a caller gives for the fields it does give.
SampleMouse ==
    [f \in MouseFields |->
        CASE f = "name" -> Some("mouseX")
          [] f = "stimulus_set" -> Some("stimA")
          [] f = "step_first_rotation" -> Some(50)
          [] f = "timeout" -> Some(2000)
          [] f = "scheduler" -> Some("schedA")
          [] f = "max_rewards_per_trial" -> Some(3)
          [] f = "protocol_name" -> Some("TwoChoice")
          [] f = "script_name" -> Some("TwoChoice.py")
          [] f = "default_board" -> Some("board1")
          [] f = "default_box" -> Some("box1")]

\* The fields a caller may leave out.
Omittable ==
    {"stimulus_set", "step_first_rotation", "timeout", "max_rewards_per_trial",
     "default_board", "default_box"}

\* A Mouse is created from every field but the omitted ones.
MouseCreate(omitted, validate) ==
    /\ storeOp = NoStoreOp
    /\ Len(mouseTable) < MaxMice
    /\ LET kwargs == [f \in MouseFields \ omitted |-> SampleMouse[f]]
           r == Mouse_create(mouseTable, kwargs, validate)
       IN  /\ mouseTable' = r.table
           /\ storeOp' = [op |-> "Mouse.create", omitted |-> omitted,
                          validate |-> validate, exc |-> r.exc, fields |-> r.fields,
                          before |-> Len(mouseTable)]
    /\ UNCHANGED <<sessionTable, sessions, boxVars, displayVars>>

\* The caller goes on; the store stays as the operation left it.
StoreReturn ==
    /\ storeOp # NoStoreOp
    /\ storeOp' = NoStoreOp
    /\ UNCHANGED <<mouseTable, sessionTable, sessions, boxVars, displayVars>>

\* An empty store.
InitMouse ==
    /\ mouseTable = <<>>
    /\ sessionTable = {}
    /\ sessions = NoSessions
    /\ storeOp = NoStoreOp
    /\ box = NewBox
    /\ pre = NewBox
    /\ boxOp = NoBoxOp
    /\ inst = NoInstance
    /\ shown = NothingShown

NextMouse ==
    \/ \E omitted \in SUBSET Omittable, validate \in BOOLEAN :
          MouseCreate(omitted, validate)
    \/ StoreReturn

SpecMouse == InitMouse /\ [][NextMouse]_vars

(***************************************************************************)
(* Session rows beside the Mouse rows they reference: the run-time          *)
(* parameters of a Session are columns of its own.                         *)
(***************************************************************************)
Schedulers == {"schedA", "schedB"}
StimulusSets == {"stimA", "stimB"}
\* Session(name=..., mouse=..., python_param_scheduler_name=...,
\* python_param_stimulus_set=..., logfile=..., box=...,
\* user_data_left_water_consumption=...): the fields not given take their
\* defaults. The fields of Session that no operation of the model reads are
\* left out of the row.
Session_init(name, mouse, scheduler_name, stimulus_set, logfile, bx, left_water) ==
    [name |-> name,
     mouse |-> mouse,
     logfile |-> logfile,
     box |-> bx,
     python_param_scheduler_name |-> scheduler_name,
     python_param_stimulus_set |-> stimulus_set,
     user_data_left_water_consumption |-> left_water,
     user_data_right_water_consumption |-> PyNone]

\* save() of a Session: name is the primary key, so the row of that name is
\* updated when there is one and a row is inserted when there is none.
Session_save(table, self) == {r \in table : r.name # self.name} \cup {self}

\* save() of a Mouse that also rewrites the parameters of its Sessions.
Mouse_save_cascading(mice, rows, id, self) ==
    [mice |-> [mice EXCEPT ![id] = self],
     rows |-> {IF r.mouse = Some(id)
               THEN [r EXCEPT !.python_param_scheduler_name = self["scheduler"],
                              !.python_param_stimulus_set = self["stimulus_set"]]
               ELSE r : r \in rows}]

\* save() of a stored Mouse: its own row is updated, and no other table.
Mouse_save(mice, rows, id, self) ==
    [mice |-> [mice EXCEPT ![id] = self], rows |-> rows]

\* m = Mouse.objects.get(id=id); m.scheduler = ...; m.stimulus_set = ...; m.save()
MouseUpdate(id, scheduler, stimulus_set) ==
    /\ storeOp = NoStoreOp
    /\ id \in 1..Len(mouseTable)
    /\ LET self == [mouseTable[id] EXCEPT !["scheduler"] = Some(scheduler),
                                          !["stimulus_set"] = Some(stimulus_set)]
           r == Mouse_save(mouseTable, sessionTable, id, self)
       IN  /\ mouseTable' = r.mice
           /\ sessionTable' = r.rows
    /\ storeOp' = [op |-> "Mouse.update", id |-> id]
    /\ UNCHANGED <<sessions, boxVars, displayVars>>

SessionNameOf(k) == "2020-01-0" \o Dec(k) \o "_mouseX"

\* A Session of a stored Mouse is created under a name not yet stored. Its
\* run-time parameters are what the caller hands it: the Mouse's scheduler
\* and stimulus_set of the moment (copy), or nothing.
SessionCreate(k, mouse, copy) ==
    /\ storeOp = NoStoreOp
    /\ mouse \in 1..Len(mouseTable)
    /\ \A r \in sessionTable : r.name # Some(SessionNameOf(k))
    /\ LET scheduler_name == IF copy THEN mouseTable[mouse]["scheduler"] ELSE None
           stimulus_set == IF copy THEN mouseTable[mouse]["stimulus_set"] ELSE None
           self == Session_init(Some(SessionNameOf(k)), Some(mouse), scheduler_name,
                                stimulus_set, Some(""), None, PyNone)
       IN  sessionTable' = Session_save(sessionTable, self)
    /\ storeOp' = [op |-> "Session.create", name |-> SessionNameOf(k)]
    /\ UNCHANGED <<mouseTable, sessions, boxVars, displayVars>>

NextSnapshot ==
    \/ MouseCreate({}, TRUE)
    \/ \E id \in 1..MaxMice, scheduler \in Schedulers, stimulus_set \in StimulusSets :
          MouseUpdate(id, scheduler, stimulus_set)
    \/ \E k \in 1..MaxSessions, mouse \in 1..MaxMice, copy \in BOOLEAN :
          SessionCreate(k, mouse, copy)
    \/ StoreReturn

SpecSnapshot == InitMouse /\ [][NextSnapshot]_vars

(***************************************************************************)
(* Sessions: instances are started in memory with the default name '',     *)
(* given their constructed name, and saved; the Box reads its aggregate.   *)
(***************************************************************************)
\* What an instance of Box has: its fields, its properties, and the reverse
\* accessor of Session.box, which has no related_name and so is session_set.
BoxAttributes == BoxFields \cup PairProps \cup {"id", "mean_water_consumed", "session_set"}

\* Box.mean_water_consumed: self.session_list[0].name
mean_water_consumed(related) ==
    IF "session_list" \notin BoxAttributes
    THEN [exc |-> "AttributeError", val |-> PyNone]
    ELSE IF related = {} THEN [exc |-> "IndexError", val |-> PyNone]
    ELSE [exc |-> "", val |-> PyStr]

\* The stored Sessions of the Box.
SessionsOfBox == {r \in sessionTable : r.box = Some(1)}

WaterValues == {PyNone, PyFloat(2500000)}

\* A session starts: an instance with its own log file and no name yet.
StartSession(i, bx, left_water) ==
    /\ storeOp = NoStoreOp
    /\ ~sessions[i].alive
    /\ \A j \in 1..(i - 1) : sessions[j].alive
    /\ sessions' = [sessions EXCEPT ![i] =
          [alive |-> TRUE, saved |-> FALSE,
           row |-> Session_init(Some(""), Some(1), None, None,
                                Some("log" \o Dec(i)), bx, left_water)]]
    /\ UNCHANGED <<mouseTable, sessionTable, storeOp, boxVars, displayVars>>

\* The name constructed from the date and the mouse is assigned; each
\* session's constructed name is its own.
AssignName(i) ==
    /\ storeOp = NoStoreOp
    /\ sessions[i].alive
    /\ sessions[i].row.name = Some("")
    /\ sessions' = [sessions EXCEPT ![i].row.name = Some(SessionNameOf(i))]
    /\ UNCHANGED <<mouseTable, sessionTable, storeOp, boxVars, displayVars>>

\* session.save()
SaveSession(i) ==
    /\ storeOp = NoStoreOp
    /\ sessions[i].alive
    /\ sessionTable' = Session_save(sessionTable, sessions[i].row)
    /\ sessions' = [sessions EXCEPT ![i].saved = TRUE]
    /\ UNCHANGED <<mouseTable, storeOp, boxVars, displayVars>>

\* box.mean_water_consumed is read.
ReadMeanWater ==
    /\ storeOp = NoStoreOp
    /\ LET r == mean_water_consumed(SessionsOfBox)
       IN  storeOp' = [op |-> "Box.mean_water_consumed", exc |-> r.exc, val |-> r.val]
    /\ UNCHANGED <<mouseTable, sessionTable, sessions, boxVars, displayVars>>

\* A store that holds one Mouse and one Box.
InitSession ==
    /\ mouseTable = <<SampleMouse>>
    /\ sessionTable = {}
    /\ sessions = NoSessions
    /\ storeOp = NoStoreOp
    /\ box = NewBox
    /\ pre = NewBox
    /\ boxOp = NoBoxOp
    /\ inst = NoInstance
    /\ shown = NothingShown

NextSession ==
    \/ \E i \in 1..MaxInstances, bx \in {None, Some(1)}, left_water \in WaterValues :
          StartSession(i, bx, left_water)
    \/ \E i \in 1..MaxInstances : AssignName(i)
    \/ \E i \in 1..MaxInstances : SaveSession(i)
    \/ ReadMeanWater
    \/ StoreReturn

SpecSession == InitSession /\ [][NextSession]_vars

(***************************************************************************)
(* Properties of the store.                                                *)
(***************************************************************************)
Created == storeOp.op = "Mouse.create"
NothingStored == mouseTable = SubSeq(mouseTable, 1, storeOp.before)
StoredMouse == mouseTable[Len(mouseTable)]
\* The fields the documentation calls required, and those it calls optional.
RequiredOfMouse ==
    {"name", "stimulus_set", "step_first_rotation", "scheduler", "protocol_name",
     "script_name"}
OptionalOfMouse == {"timeout", "default_board", "default_box"}

\* With every required field given, the creation succeeds with the omitted
\* optional fields null and an omitted max_rewards_per_trial equal to 1.
CreatedWithDefaults ==
    (Created /\ storeOp.omitted \cap RequiredOfMouse = {}) =>
        /\ storeOp.exc = ""
        /\ Len(mouseTable) = storeOp.before + 1
        /\ \A f \in storeOp.omitted \cap OptionalOfMouse : StoredMouse[f] = None
        /\ "max_rewards_per_trial" \in storeOp.omitted =>
              StoredMouse["max_rewards_per_trial"] = Some(1)

C7_Snapshot ==
    [][(storeOp = NoStoreOp /\ storeOp'.op = "Mouse.update") =>
          \A s \in sessionTable :
              s.mouse = Some(storeOp'.id) =>
                  \E t \in sessionTable' :
                      /\ t.name = s.name
                      /\ t.python_param_scheduler_name = s.python_param_scheduler_name
                      /\ t.python_param_stimulus_set = s.python_param_stimulus_set]_vars

\* A Mouse has been updated away from the parameters one of its Sessions
\* copied, and the Session still holds the copy.
C7_Witness ==
    /\ storeOp.op = "Mouse.update"
    /\ \E s \in sessionTable :
          /\ s.mouse = Some(storeOp.id)
          /\ s.python_param_scheduler_name = Some("schedA")
          /\ s.python_param_stimulus_set = Some("stimA")
          /\ mouseTable[storeOp.id]["scheduler"] = Some("schedB")
          /\ mouseTable[storeOp.id]["stimulus_set"] = Some("stimB")

RECURSIVE TotalWater(_)
TotalWater(rows) ==
    IF rows = {} THEN 0
    ELSE LET r == CHOOSE x \in rows : TRUE
         IN  r.user_data_left_water_consumption.n
               + r.user_data_right_water_consumption.n + TotalWater(rows \ {r})

\* C8: for a Box with at least one stored Session, reading
\* mean_water_consumed succeeds and returns the mean of the water consumed
\* in those sessions.
C8_MeanWater ==
    (storeOp.op = "Box.mean_water_consumed" /\ SessionsOfBox # {}) =>
        /\ storeOp.exc = ""
        /\ storeOp.val.t = "float"
        /\ storeOp.val.n * Cardinality(SessionsOfBox) = TotalWater(SessionsOfBox)

\* C9: the store holds at most one Session per name, the empty name
\* included, and no two distinct sessions are merged into or overwritten by
\* one record: every session that was saved still has a record of its own.
C9_OneRecordEach ==
    /\ \A r1, r2 \in sessionTable : r1.name = r2.name => r1 = r2
    /\ \A i \in 1..MaxInstances :
          (sessions[i].alive /\ sessions[i].saved) =>
              \E r \in sessionTable : r.logfile = sessions[i].row.logfile

(***************************************************************************)
(* Properties of the display methods.                                      *)
(***************************************************************************)
Consumption(method) ==
    IF method = "left_valve_summary" THEN inst.user_data_left_water_consumption
    ELSE inst.user_data_right_water_consumption

ValveMean(method) ==
    IF method = "left_valve_summary" THEN inst.user_data_left_valve_mean
    ELSE inst.user_data_right_valve_mean

Perf(method) ==
    IF method = "display_left_perf" THEN inst.user_data_left_perf
    ELSE inst.user_data_right_perf

\* The water summary as the documentation words it: nothing without a
\* recorded consumption; else the consumption with two decimals, followed,
\* exactly when a valve mean is present, by " @<1000 x mean> µL".
DocumentedSummary(consumption, mean) ==
    IF consumption = PyNone THEN ""
    ELSE FormatF(2, consumption).val \o
         (IF mean = PyNone THEN ""
          ELSE " @" \o FormatF(1, PyFloat(1000 * mean.n)).val \o " µL")

\* C3: left and right alike, the water summary is the documented function
\* of (consumption, valve mean): '' whenever no consumption is recorded,
\* whatever the valve mean; otherwise the consumption with two decimals,
\* followed if and only if a valve mean is present by ' @<1000 x mean with
\* one decimal> µL'; for every recorded value, zero included.
C3_SummaryAsDocumented ==
    shown.method \in {"left_valve_summary", "right_valve_summary"} =>
        /\ shown.exc = ""
        /\ shown.val =
              DocumentedSummary(Consumption(shown.method), ValveMean(shown.method))

\* C4: display_left_perf and display_right_perf never raise: for a numeric
\* fraction v they return the numeral of the integer nearest to 100*v (0.873
\* gives '87'), and for None or a non-numeric value the literal 'NA'.
C4_PerfDisplay ==
    shown.method \in {"display_left_perf", "display_right_perf"} =>
        LET v == Perf(shown.method)
        IN  /\ shown.exc = ""
            /\ v.t # "float" => shown.val = "NA"
            /\ v.t = "float" =>
                  \E n \in 0..((100 * v.n) \div 1000000 + 1) :
                      /\ shown.val = Dec(n)
                      /\ 2 * (1000000 * n - 100 * v.n) <= 1000000
                      /\ 2 * (100 * v.n - 1000000 * n) <= 1000000
            /\ v = PyFloat(873000) => shown.val = "87"

\* display_left_perf has shown '87' for 0.873.
C4_Witness ==
    /\ shown.method = "display_left_perf"
    /\ inst.user_data_left_perf = PyFloat(873000)
    /\ shown.val = "87"

\* C6: the label of a Session is 'Unstarted' when its name is empty or
\* unassigned and exactly its name otherwise; the label of a Mouse, Box,
\* Board, ArduinoProtocol or PythonProtocol is always exactly its name.
C6_Label ==
    shown.method = "__str__" =>
        /\ shown.exc = ""
        /\ shown.val =
              IF inst.kind = "Session" /\ inst.name \in {None, Some("")}
              THEN "Unstarted"
              ELSE inst.name[1]

\* A Session with the empty name has been shown as 'Unstarted'.
C6_Witness ==
    /\ shown.method = "__str__"
    /\ inst.kind = "Session"
    /\ inst.name = Some("")
    /\ shown.val = "Unstarted"

(***************************************************************************)
(* Properties of the paired coordinate properties of Box.                  *)
(***************************************************************************)
Wrote == boxOp # NoBoxOp
WroteSeq(n) == Wrote /\ boxOp.obj.indexable /\ Len(boxOp.obj.elems) = n
FirstTwo(obj) == <<obj.elems[1], obj.elems[2]>>

\* C1: after a paired property is set to a 2-element input (x, y), absent
\* values included, the write has succeeded and reading the same property
\* returns exactly (x, y).
C1_RoundTrip ==
    WroteSeq(2) =>
        /\ boxOp.exc = ""
        /\ GetPair(boxOp.prop, box) = FirstTwo(boxOp.obj)

\* A Box whose pair was just set to (None, 0) and reads back so.
C1_Witness ==
    /\ WroteSeq(2)
    /\ boxOp.obj.elems = <<None, Some(0)>>
    /\ GetPair(boxOp.prop, box) = <<None, Some(0)>>

C10_AllOrNothing ==
    Wrote =>
        /\ boxOp.exc # "" =>
              /\ box[PairX(boxOp.prop)] = pre[PairX(boxOp.prop)]
              /\ box[PairY(boxOp.prop)] = pre[PairY(boxOp.prop)]
        /\ boxOp.exc = "" =>
              \A f \in BoxFields \ {PairX(boxOp.prop), PairY(boxOp.prop)} :
                  box[f] = pre[f]
====
